---- MODULE Spec2Model ----
(***************************************************************************)
(* claude-meter (src/usage.mjs): the refresh scheduler of watch mode and   *)
(* the render pipeline it drives.  One action per event-loop callback      *)
(* (timer, file watcher, key press, signal, completion of the quota fetch) *)
(* plus the environment's steps (the clock, the cache file).  A callback   *)
(* runs to completion: an async render() runs synchronously up to its      *)
(* `await fetchQuota(auth)` and the rest of it is a later callback.        *)
(***************************************************************************)
EXTENDS Integers, Sequences, FiniteSets, TLC

VARIABLES
    opts,            \* command line and stdin: watch, json, compact, export, tty
    auth,            \* content of AUTH_FILE: "none", "apikey", "oauth"
    goalsFile,       \* GOALS_FILE holds a goals configuration
    statsFile,       \* STATS_FILE: "ok", "missing", "bad" (unparsable)
    version,         \* which content STATS_FILE holds (its writes, counted)
    watchPending,    \* the watchFile poller has a change to report
    phase,           \* "Start", "Watching", "OneShot", "Exited"
    exitCode,        \* -1 while running, else the process's exit status
    cursorHidden,    \* the terminal's cursor is hidden
    rawMode,         \* stdin is in raw mode
    now,             \* Date.now(), ms since the process started
    lastRefreshTime, \* the countdown baseline
    nextPeriodic,    \* when the refresh setInterval is due
    spinnerIndex,
    showGoals,
    inflight,        \* renders suspended at `await fetchQuota`, oldest first
    screen,          \* what the terminal shows
    args,            \* the function of the statistics under study, its inputs
    result           \* what that function returned

vars == <<opts, auth, goalsFile, statsFile, version, watchPending, phase,
          exitCode, cursorHidden, rawMode, now, lastRefreshTime, nextPeriodic,
          spinnerIndex, showGoals, inflight, screen, args, result>>

\* ------------------------------------------------------------------ bounds
MaxTicks    == 10     \* runs of the 100 ms timer modelled
IntervalArg == 1      \* the watch interval argument, seconds
MaxVersion  == 2      \* writes of the cache file modelled
MaxInflight == 2      \* renders suspended on the quota fetch at once

\* --------------------------------------------------------------- constants
SpinnerFrames == 10   \* spinnerFrames.length
FastTickMs    == 100  \* the period of the footer's setInterval

refreshInterval == IntervalArg * 1000

\* how the request of fetchQuota can end: a 2xx response with a JSON body, a
\* rejected fetch, a response that is not 2xx, a 2xx body that is not JSON
FetchOutcomes == {"ok", "transport", "non2xx", "unparsable"}

\* no function of the statistics is under study
NoArgs == [fn |-> "none"]

NoResult == [fn |-> "none"]

\* the terminal before anything is written: no render output, no footer
NoScreen == [modes |-> {}, blocks |-> {}, data |-> 0, msg |-> FALSE,
             footer |-> -1, bye |-> FALSE]

\* ------------------------------------------------------------- pure parts

\* Math.ceil(a / b) for b > 0
CeilDiv(a, b) == -((-a) \div b)

Max(a, b) == IF a >= b THEN a ELSE b

\* updateProgressBar: seconds = max(0, ceil((refreshInterval - elapsed)/1000))
Countdown(t, base) == Max(0, CeilDiv(refreshInterval - (t - base), 1000))

\* fetchQuota without its `response.ok` test: an error body passes as quota
fetchQuotaAnyStatus(a, outcome) ==
    IF a # "oauth" THEN FALSE
    ELSE outcome \in {"ok", "non2xx"}

\* fetchQuota: the quota snapshot, or null when the fetch fails
fetchQuota(a, outcome) ==
    IF a # "oauth" THEN FALSE
    ELSE IF outcome = "transport" THEN FALSE
    ELSE IF outcome # "non2xx" THEN outcome = "ok"
    ELSE FALSE

\* loadGoals: null when the file is absent or malformed
loadGoals == goalsFile

\* render with independent ifs in place of the else-if chain
DispatchNoElse(o) ==
    (IF o.json THEN {"json"} ELSE {})
      \cup (IF o.compact THEN {"compact"} ELSE {})
      \cup (IF o.export THEN {"export"} ELSE {})
      \cup (IF ~o.json /\ ~o.compact /\ ~o.export THEN {"dashboard"} ELSE {})

\* render's if / else-if chain: the print functions it calls
Dispatch(o) ==
    IF o.json THEN {"json"}
    ELSE IF o.compact THEN {"compact"}
    ELSE IF o.export THEN {"export"}
    ELSE {"dashboard"}

\* printStats: the blocks of the dashboard
printStats(o, quota, goals, sg) ==
    {"header", "greeting", "cache"}
      \cup (IF goals /\ sg THEN {"goals"} ELSE {})
      \cup (IF quota THEN {"quota"} ELSE {})
      \cup {"stats"}
      \cup (IF o.watch THEN {"footer"} ELSE {})

\* ------------------------------------------------------- the render pipeline

\* whether writeFileSync(exportFile, ...) can succeed: only export mode writes
ExportResults == IF opts.export THEN BOOLEAN ELSE {TRUE}

\* render's catch exiting in watch mode too
ExitOnErrorAlways(o) == TRUE

\* render's catch: `if (!watchMode) process.exit(1)`
ExitOnError(o) == ~o.watch

\* render, from after the await to its end (the catch included): the screen
\* and the outcome with cache content `data`, fetch outcome `outcome` and
\* the goals-visibility flag `sg`
RenderOutput(scr, data, outcome, exportOk, sg) ==
    LET quota == fetchQuota(auth, outcome)
        modes == Dispatch(opts)
        dash  == "dashboard" \in modes
        wipe  == dash /\ opts.watch
    IN  IF "export" \in modes /\ ~exportOk
        THEN [screen |-> scr, outcome |-> "error",
              fatal |-> ExitOnError(opts)]
        ELSE [screen |->
                [modes  |-> modes,
                 blocks |-> IF dash
                            THEN printStats(opts, quota, loadGoals, sg)
                            ELSE {},
                 data   |-> data,
                 msg    |-> IF wipe THEN FALSE ELSE scr.msg,
                 footer |-> IF wipe THEN CeilDiv(refreshInterval, 1000)
                            ELSE scr.footer,
                 bye    |-> scr.bye],
              outcome |-> "ok", fatal |-> FALSE]

\* render, from its call to its first suspension or its end
Render(scr, infl, exportOk, sg) ==
    IF statsFile # "ok"
    THEN [screen |-> scr, inflight |-> infl, outcome |-> "error",
          fatal |-> ExitOnError(opts)]
    ELSE IF auth = "oauth"
    THEN [screen |-> scr, inflight |-> Append(infl, [data |-> version]),
          outcome |-> "suspended", fatal |-> FALSE]
    ELSE LET r == RenderOutput(scr, version, "none", exportOk, sg)
         IN  [screen |-> r.screen, inflight |-> infl, outcome |-> r.outcome,
              fatal |-> r.fatal]

\* the model holds at most MaxInflight suspended renders
CanRender == auth # "oauth" \/ Len(inflight) < MaxInflight

\* ------------------------------------------------------------------- Init

Options == [watch : BOOLEAN, json : BOOLEAN, compact : BOOLEAN,
            export : BOOLEAN, tty : BOOLEAN]

\* the invocations explored: every one outside watch mode; in watch mode the
\* dashboard without a credential, with and without a goals file and a TTY,
\* the dashboard with an OAuth credential, a goals file and a TTY, and the
\* other output modes and the API-key credential without a TTY
Explored(o, a, g) ==
    /\ o.watch /\ (o.json \/ o.compact \/ o.export) => a = "none" /\ ~g /\ ~o.tty
    /\ o.watch /\ a = "apikey" => ~o.tty
    /\ o.watch /\ a = "oauth" => g /\ o.tty

Init ==
    /\ opts \in Options
    /\ auth \in {"none", "apikey", "oauth"}
    /\ goalsFile \in BOOLEAN
    /\ Explored(opts, auth, goalsFile)
    /\ statsFile \in {"ok", "missing", "bad"}
    /\ version = 1
    /\ watchPending = FALSE
    /\ phase = "Start"
    /\ exitCode = -1
    /\ cursorHidden = FALSE
    /\ rawMode = FALSE
    /\ now = 0
    /\ lastRefreshTime = 0
    /\ nextPeriodic = 0
    /\ spinnerIndex = 0
    /\ showGoals = TRUE
    /\ inflight = <<>>
    /\ screen = NoScreen
    /\ args = NoArgs
    /\ result = NoResult

env == <<opts, auth, goalsFile, args, result>>

files == <<statsFile, version>>

\* ---------------------------------------------------------------- actions

\* process.exit(code): the process ends, its timers, its watcher and its
\* variables with it; what stays is the terminal and the pending requests
Exit(code) ==
    /\ phase' = "Exited"
    /\ exitCode' = code
    /\ watchPending' = FALSE
    /\ lastRefreshTime' = 0
    /\ nextPeriodic' = 0
    /\ spinnerIndex' = 0
    /\ showGoals' = TRUE

\* a watch-mode callback after its render() call returned: the process is
\* gone if render exited it, else the callback's own assignments follow
Proceed(r, lrt, np, wp, sg) ==
    IF r.fatal
    THEN Exit(1)
    ELSE /\ lastRefreshTime' = lrt
         /\ nextPeriodic' = np
         /\ watchPending' = wp
         /\ showGoals' = sg
         /\ UNCHANGED <<phase, exitCode, spinnerIndex>>

\* cleanup without its process.exit: the listeners keep the process alive
cleanupNoExit ==
    /\ cursorHidden' = FALSE
    /\ screen' = [screen EXCEPT !.bye = TRUE]
    /\ UNCHANGED <<phase, exitCode, watchPending, lastRefreshTime,
                   nextPeriodic, spinnerIndex, showGoals, rawMode, inflight>>

\* cleanup: show the cursor, say goodbye, exit 0
cleanup ==
    /\ cursorHidden' = FALSE
    /\ screen' = [screen EXCEPT !.bye = TRUE]
    /\ Exit(0)
    /\ UNCHANGED <<rawMode, inflight>>

\* main, with the cache file absent: the error and exit 1
MainNoStats ==
    /\ phase = "Start"
    /\ statsFile = "missing"
    /\ Exit(1)
    /\ UNCHANGED <<env, files, cursorHidden, rawMode, now, inflight, screen>>

\* main in watch mode: the terminal modes, the first render, the timers
MainWatch ==
    /\ phase = "Start"
    /\ statsFile # "missing"
    /\ opts.watch
    /\ cursorHidden' = TRUE
    /\ rawMode' = opts.tty
    /\ \E ok \in ExportResults :
         LET r == Render(screen, inflight, ok, showGoals)
         IN  /\ screen' = r.screen
             /\ inflight' = r.inflight
             /\ IF r.fatal
                THEN Exit(1)
                ELSE /\ lastRefreshTime' = now
                     /\ nextPeriodic' = now + refreshInterval
                     /\ phase' = "Watching"
                     /\ UNCHANGED <<exitCode, watchPending, spinnerIndex,
                                    showGoals>>
    /\ UNCHANGED <<env, files, now>>

\* main outside watch mode: one render; the process ends with it
MainOnce ==
    /\ phase = "Start"
    /\ statsFile # "missing"
    /\ ~opts.watch
    /\ \E ok \in ExportResults :
         LET r == Render(screen, inflight, ok, showGoals)
         IN  /\ screen' = r.screen
             /\ inflight' = r.inflight
             /\ IF r.fatal THEN Exit(1)
                ELSE IF r.outcome = "suspended"
                THEN /\ phase' = "OneShot"
                     /\ UNCHANGED <<exitCode, watchPending, lastRefreshTime,
                                    nextPeriodic, spinnerIndex, showGoals>>
                ELSE Exit(0)
    /\ UNCHANGED <<env, files, cursorHidden, rawMode, now>>

\* the refresh setInterval's callback: render(), then the baseline
PeriodicTick ==
    /\ phase = "Watching"
    /\ now >= nextPeriodic
    /\ CanRender
    /\ \E ok \in ExportResults :
         LET r == Render(screen, inflight, ok, showGoals)
         IN  /\ screen' = r.screen
             /\ inflight' = r.inflight
             /\ Proceed(r, now, now + refreshInterval, watchPending, showGoals)
    /\ UNCHANGED <<env, files, cursorHidden, rawMode, now>>

\* watchFile's listener: render(), then the baseline
FileChanged ==
    /\ phase = "Watching"
    /\ watchPending
    /\ CanRender
    /\ \E ok \in ExportResults :
         LET r == Render(screen, inflight, ok, showGoals)
         IN  /\ screen' = r.screen
             /\ inflight' = r.inflight
             /\ Proceed(r, now, nextPeriodic, FALSE, showGoals)
    /\ UNCHANGED <<env, files, cursorHidden, rawMode, now>>

\* the spinner's next phase without the modulo
NextSpinnerNoWrap(i) == i + 1

\* the spinner's next phase
NextSpinner(i) == (i + 1) % SpinnerFrames

\* the 100 ms setInterval's callback, updateProgressBar included, 100 ms
\* after its previous run; a refresh timer that is due runs first
FastTick ==
    /\ phase = "Watching"
    /\ now < nextPeriodic
    /\ now + FastTickMs <= MaxTicks * FastTickMs
    /\ now' = now + FastTickMs
    /\ spinnerIndex' = NextSpinner(spinnerIndex)
    /\ screen' = [screen EXCEPT
                    !.footer = Countdown(now + FastTickMs, lastRefreshTime)]
    /\ UNCHANGED <<env, files, watchPending, phase, exitCode, cursorHidden,
                   rawMode, lastRefreshTime, nextPeriodic, showGoals,
                   inflight>>

Keys == {"q", "ctrl-c", "r", "g", "x"}

\* handleKeypress, 'r': render()
KeyRefresh ==
    /\ CanRender
    /\ \E ok \in ExportResults :
         LET r == Render(screen, inflight, ok, showGoals)
         IN  /\ screen' = r.screen
             /\ inflight' = r.inflight
             /\ Proceed(r, lastRefreshTime, nextPeriodic, watchPending,
                        showGoals)
    /\ UNCHANGED <<cursorHidden, rawMode>>

\* 'g' with no goals flipping the flag all the same
KeyGoalsNoneFlips ==
    /\ CanRender
    /\ \E ok \in ExportResults :
         LET r == Render(NoScreen, inflight, ok, ~showGoals)
         IN  /\ screen' = [r.screen EXCEPT !.msg = ~r.fatal]
             /\ inflight' = r.inflight
             /\ Proceed(r, lastRefreshTime, nextPeriodic, watchPending,
                        ~showGoals)
    /\ UNCHANGED <<cursorHidden, rawMode>>

\* handleKeypress, 'g' with no goals: clear, render(), the message
KeyGoalsNone ==
    /\ CanRender
    /\ \E ok \in ExportResults :
         LET r == Render(NoScreen, inflight, ok, showGoals)
         IN  /\ screen' = [r.screen EXCEPT !.msg = ~r.fatal]
             /\ inflight' = r.inflight
             /\ Proceed(r, lastRefreshTime, nextPeriodic, watchPending,
                        showGoals)
    /\ UNCHANGED <<cursorHidden, rawMode>>

\* 'g' with goals resetting the countdown baseline as the timer does
KeyGoalsToggleResets ==
    /\ CanRender
    /\ \E ok \in ExportResults :
         LET r == Render(screen, inflight, ok, ~showGoals)
         IN  /\ screen' = r.screen
             /\ inflight' = r.inflight
             /\ Proceed(r, now, nextPeriodic, watchPending, ~showGoals)
    /\ UNCHANGED <<cursorHidden, rawMode>>

\* handleKeypress, 'g' with goals: flip showGoals, render()
KeyGoalsToggle ==
    /\ CanRender
    /\ \E ok \in ExportResults :
         LET r == Render(screen, inflight, ok, ~showGoals)
         IN  /\ screen' = r.screen
             /\ inflight' = r.inflight
             /\ Proceed(r, lastRefreshTime, nextPeriodic, watchPending,
                        ~showGoals)
    /\ UNCHANGED <<cursorHidden, rawMode>>

\* handleKeypress, any other key: nothing
KeyIgnored ==
    UNCHANGED <<phase, exitCode, watchPending, cursorHidden, rawMode,
                   lastRefreshTime, nextPeriodic, spinnerIndex, showGoals,
                   inflight, screen>>

\* stdin's 'data' listener, registered when stdin is a TTY
handleKeypress(char) ==
    /\ phase = "Watching"
    /\ opts.tty
    /\ IF char \in {"q", "ctrl-c"} THEN cleanup
       ELSE IF char = "r" THEN KeyRefresh
       ELSE IF char = "g"
            THEN IF ~loadGoals THEN KeyGoalsNone ELSE KeyGoalsToggle
       ELSE KeyIgnored
    /\ UNCHANGED <<env, files, now>>

Signals == {"SIGINT", "SIGTERM"}

\* the SIGINT and SIGTERM listeners
OnSignal(sig) ==
    /\ phase = "Watching"
    /\ cleanup
    /\ UNCHANGED <<env, files, now>>

\* s without its i-th element
RemoveAt(s, i) == SubSeq(s, 1, i - 1) \o SubSeq(s, i + 1, Len(s))

\* the quota fetch of the i-th suspended render ends and the render resumes;
\* outside watch mode the process ends with it
FetchDone(i, outcome) ==
    /\ phase \in {"Watching", "OneShot"}
    /\ i \in DOMAIN inflight
    /\ inflight' = RemoveAt(inflight, i)
    /\ \E ok \in ExportResults :
         LET r == RenderOutput(screen, inflight[i].data, outcome, ok, showGoals)
         IN  /\ screen' = r.screen
             /\ IF r.fatal THEN Exit(1)
                ELSE IF opts.watch
                THEN UNCHANGED <<phase, exitCode, watchPending,
                                 lastRefreshTime, nextPeriodic, spinnerIndex,
                                 showGoals>>
                ELSE Exit(0)
    /\ UNCHANGED <<env, files, cursorHidden, rawMode, now>>

\* another process writes, removes or garbles the cache file
StatsChange(s) ==
    /\ phase = "Watching"
    /\ IF s = "ok"
       THEN version < MaxVersion /\ version' = version + 1
       ELSE statsFile # s /\ version' = version
    /\ statsFile' = s
    /\ watchPending' = TRUE
    /\ UNCHANGED <<env, phase, exitCode, cursorHidden, rawMode, now,
                   lastRefreshTime, nextPeriodic, spinnerIndex, showGoals,
                   inflight, screen>>

Next ==
    \/ MainNoStats
    \/ MainWatch
    \/ MainOnce
    \/ PeriodicTick
    \/ FileChanged
    \/ FastTick
    \/ \E char \in Keys : handleKeypress(char)
    \/ \E sig \in Signals : OnSignal(sig)
    \/ \E i \in 1..MaxInflight, outcome \in FetchOutcomes : FetchDone(i, outcome)
    \/ \E s \in {"ok", "missing", "bad"} : StatsChange(s)

Spec == Init /\ [][Next]_vars

\* ----------------------------------------------------------------- claims

\* a quit key or a termination signal is handled
QuitStep ==
    \/ \E char \in {"q", "ctrl-c"} : handleKeypress(char)
    \/ \E sig \in Signals : OnSignal(sig)

\* a callback of the initial draw, the refresh timer, the file watcher or
\* the refresh key ran and the process is still there
FullRenderStep ==
    /\ MainWatch \/ PeriodicTick \/ FileChanged \/ handleKeypress("r")
    /\ phase' = "Watching"

\* C1: every full render started by the initial draw, the refresh timer, a
\* cache-file change or the key 'r' sets the countdown baseline
\* lastRefreshTime to the time at which that render starts.
C1_BaselineReset == [][FullRenderStep => lastRefreshTime' = now]_vars

\* C2: in watch mode a quit key (on a TTY) and a termination signal can
\* always be handled; handling one ends the process with status 0 and the
\* cursor shown; once the process has ended nothing is written to the
\* terminal and nothing of it changes.
C2_QuitShutsDown ==
    /\ [](phase = "Watching" =>
            /\ ENABLED OnSignal("SIGINT")
            /\ ENABLED OnSignal("SIGTERM")
            /\ opts.tty => ENABLED handleKeypress("q")
                           /\ ENABLED handleKeypress("ctrl-c"))
    /\ [][QuitStep => phase' = "Exited" /\ exitCode' = 0 /\ ~cursorHidden']_vars
    /\ [][phase = "Exited" =>
            UNCHANGED <<screen, phase, exitCode, cursorHidden, rawMode>>]_vars

\* C2's case: the process was quit while a render waited for its quota fetch
C2_Witness ==
    /\ phase = "Exited" /\ exitCode = 0 /\ ~cursorHidden /\ screen.bye
    /\ inflight # <<>>

\* C3: when the process has left watch mode, stdin is out of raw mode and
\* the cursor is shown.
C3_TerminalRestored ==
    opts.watch /\ phase = "Exited" => ~rawMode /\ ~cursorHidden

\* C4: at most one render is in progress at any time: no render starts
\* while another is suspended on its quota fetch.
C4_NoOverlap == Len(inflight) <= 1

\* C5: with a goals configuration, the key 'g' flips showGoals, calls render
\* exactly once and leaves the countdown baseline and the refresh timer as
\* they are.
C5_ToggleGoals ==
    [][handleKeypress("g") /\ loadGoals =>
        /\ showGoals' = ~showGoals
        /\ statsFile = "ok" =>
             IF auth = "oauth"
             THEN inflight' = Append(inflight, [data |-> version])
             ELSE /\ inflight' = inflight
                  /\ screen'.data = version
                  /\ "goals" \in screen'.blocks <=> showGoals'
        /\ lastRefreshTime' = lastRefreshTime
        /\ nextPeriodic' = nextPeriodic
        /\ phase' = phase]_vars

\* C5's case: goals were toggled off some time after the last refresh
C5_Witness ==
    /\ phase = "Watching" /\ goalsFile /\ ~showGoals
    /\ screen.modes = {"dashboard"} /\ "goals" \notin screen.blocks
    /\ lastRefreshTime < now

\* C6: without a goals configuration, the key 'g' leaves showGoals as it is
\* and writes the 'No goals set' message; the flag never changes.
C6_NoGoalsMessage ==
    /\ [](~goalsFile => showGoals)
    /\ [][handleKeypress("g") /\ ~loadGoals =>
            showGoals' = showGoals /\ screen'.msg]_vars

\* C6's case: the message is on the screen
C6_Witness ==
    phase = "Watching" /\ ~goalsFile /\ screen.msg /\ showGoals

\* C7: the fast tick moves the spinner to the next frame and rewrites the
\* footer; it calls no render, starts no fetch, writes nothing else and
\* leaves lastRefreshTime and showGoals alone; spinnerIndex is always an
\* index into spinnerFrames.
C7_FastTickFooterOnly ==
    /\ [](spinnerIndex \in 0 .. SpinnerFrames - 1)
    /\ [][FastTick =>
            /\ inflight' = inflight
            /\ [screen' EXCEPT !.footer = screen.footer] = screen
            /\ screen'.footer = Countdown(now', lastRefreshTime)
            /\ lastRefreshTime' = lastRefreshTime
            /\ showGoals' = showGoals]_vars

\* C7's case: the spinner has gone through all its frames
C7_Witness ==
    phase = "Watching" /\ now = SpinnerFrames * FastTickMs /\ spinnerIndex = 0

\* C8 as stated: in watch mode a missing or unreadable cache file never ends
\* the process, at startup included: it ends only when quit, with status 0.
C8_NeverTerminates == opts.watch /\ phase = "Exited" => exitCode = 0

\* C8: a cache file missing when the program starts ends it with status 1
\* before anything is drawn, in watch mode too; past that check, watch mode
\* is left only by quitting, whatever happens to the file; each later
\* trigger calls render, which reads the file as it is then when it is
\* readable; outside watch mode an unreadable file ends the process with a
\* status other than 0.
C8_WatchSurvives ==
    /\ [](opts.watch /\ phase = "Exited" /\ exitCode # 0 =>
            /\ exitCode = 1 /\ statsFile = "missing"
            /\ ~cursorHidden /\ screen = NoScreen)
    /\ [](~opts.watch /\ phase = "Exited" /\ statsFile # "ok" => exitCode = 1)
    /\ [][phase = "Start" /\ statsFile = "missing" =>
            phase' = "Exited" /\ exitCode' = 1]_vars
    /\ [][phase = "Watching" /\ phase' # "Watching" =>
            exitCode' = 0 /\ screen'.bye]_vars
    /\ [][PeriodicTick \/ FileChanged \/ handleKeypress("r") =>
            /\ phase' = "Watching"
            /\ statsFile = "ok" =>
                 IF auth = "oauth"
                 THEN inflight' = Append(inflight, [data |-> version])
                 ELSE opts.export \/ screen'.data = version]_vars

\* C8's case: the file went away under watch mode, the watcher's render
\* failed and the process is still watching
C8_Witness ==
    /\ opts.watch /\ phase = "Watching" /\ statsFile = "missing"
    /\ ~watchPending /\ now > 0

\* C9: the quota section is drawn only with an OAuth credential and a fetch
\* that succeeded: a step that ends a fetch draws the quota section exactly
\* when it is no step of a failed fetch (rejected, not 2xx, body not JSON);
\* either way the render completes with every other section and the cache
\* content it read; without an OAuth credential no fetch is started and
\* every dashboard has its other sections and no quota section.
C9_QuotaOnlyOnSuccess ==
    /\ [](screen.modes = {"dashboard"} =>
            /\ {"header", "greeting", "cache", "stats"} \subseteq screen.blocks
            /\ "quota" \in screen.blocks => auth = "oauth")
    /\ [](auth # "oauth" => inflight = <<>>)
    /\ [][Len(inflight') < Len(inflight) /\ Dispatch(opts) = {"dashboard"} =>
            /\ screen'.blocks \ {"quota"} =
                 printStats(opts, FALSE, loadGoals, showGoals)
            /\ \E i \in DOMAIN inflight :
                 /\ inflight' = RemoveAt(inflight, i)
                 /\ screen'.data = inflight[i].data
            /\ IF opts.watch THEN phase' = phase ELSE exitCode' = 0
            /\ \A oc \in FetchOutcomes :
                 ("quota" \in screen'.blocks) # (oc = "ok") =>
                   ~ \E i \in DOMAIN inflight : FetchDone(i, oc)]_vars

\* C9's case: a dashboard drawn with an OAuth credential and no quota section
C9_Witness ==
    /\ auth = "oauth" /\ screen.modes = {"dashboard"}
    /\ "quota" \notin screen.blocks /\ "stats" \in screen.blocks

\* C10: whatever has been rendered came from exactly one output mode, the
\* first of JSON, compact, export, dashboard that the flags select.
C10_OneMode ==
    screen.modes # {} =>
      /\ Cardinality(screen.modes) = 1
      /\ opts.json => screen.modes = {"json"}
      /\ ~opts.json /\ opts.compact => screen.modes = {"compact"}
      /\ ~opts.json /\ ~opts.compact /\ opts.export =>
           screen.modes = {"export"}
      /\ ~opts.json /\ ~opts.compact /\ ~opts.export =>
           screen.modes = {"dashboard"}
      /\ screen.blocks # {} <=> screen.modes = {"dashboard"}

\* C10's case: all three flags given and a render done
C10_Witness ==
    opts.json /\ opts.compact /\ opts.export /\ screen.modes = {"json"}

\* ------------------------------------------------------------- statistics
\* The functions that compute what a render shows.  A date string
\* 'YYYY-MM-DD' is the number of its day, an instant (a Date) is a number of
\* ticks, TicksPerDay to the day, tick 0 of a day being 00:00 UTC.

TicksPerDay   == 2     \* instants of one day the model tells apart
MonthLen      == 3     \* days in a month of the model's calendar
MaxRecords    == 2     \* records of a history

MaxCount      == 45    \* messages of a window
MaxGoal       == 40    \* a goal, and the messages of the window before
MaxTokens     == 2     \* tokens of one model on one day
MaxArg        == 1     \* digits of a goal on the command line
MaxExtra      == 1     \* records of an array beyond the width of a view
MaxBusy       == 2     \* days of an array that have messages

MonthsPerYear == 12

\* the day of 1 January of the model calendar's year 1
Day0 == MonthsPerYear * MonthLen

\* the dates a record can carry: from 8 days before Day0 to the first day of
\* the month after Day0's
Dates == (Day0 - 8) .. (Day0 + MonthLen)

\* the instants at which a function can be called
Instants == {d * TicksPerDay + tod : d \in {Day0, Day0 + 1},
                                     tod \in 0 .. TicksPerDay - 1}

\* messageCount of a record
Counts == {0, 1}

\* data.dailyActivity: its records by date, at most one record to a date
Histories ==
    UNION {[S -> Counts] : S \in {T \in SUBSET Dates : Cardinality(T) <= MaxRecords}}

\* the values that successive `new Date()` calls of one computation return:
\* the first k return t, the later ones `late`, at most a tick after t
Clocks(reads) ==
    {[t |-> t, late |-> t, k |-> reads] : t \in Instants}
      \cup {[t |-> t, late |-> t + 1, k |-> k] : t \in Instants, k \in 1 .. reads - 1}

\* the j-th `new Date()` of a computation
Read(clk, j) == IF j <= clk.k THEN clk.t ELSE clk.late

\* formatDate: date.toISOString().split('T')[0], the UTC date of an instant
formatDate(t) == t \div TicksPerDay

\* new Date('YYYY-MM-DD'): 00:00 UTC of that date
ParseDate(d) == d * TicksPerDay

\* date.setDate(date.getDate() - n): n days earlier at the same time of day
\* (a zone without daylight saving)
SubDays(t, n) == t - n * TicksPerDay

\* calculateStreak's loop from offset i on; it reads the clock once per pass
RECURSIVE StreakWalk(_, _, _, _, _)
StreakWalk(activity, clk, today, i, streak) ==
    IF i >= Cardinality(DOMAIN activity) THEN streak
    ELSE LET expectedStr == formatDate(SubDays(Read(clk, i + 2), i))
         IN  IF expectedStr \in DOMAIN activity /\ activity[expectedStr] > 0
             THEN StreakWalk(activity, clk, today, i + 1, streak + 1)
             ELSE IF i = 0 /\ expectedStr = today
             THEN StreakWalk(activity, clk, today, i + 1, streak)
             ELSE streak

\* calculateStreak
calculateStreak(activity, clk) ==
    StreakWalk(activity, clk, formatDate(Read(clk, 1)), 0, 0)

\* the records of `activity` whose date is in S
Restrict(activity, S) == [d \in S \cap DOMAIN activity |-> activity[d]]

\* data.reduce((sum, d) => sum + (d.messageCount || 0), 0)
RECURSIVE SumCounts(_)
SumCounts(data) ==
    IF DOMAIN data = {} THEN 0
    ELSE LET d == CHOOSE x \in DOMAIN data : TRUE
         IN  data[d] + SumCounts(Restrict(data, DOMAIN data \ {d}))

\* aggregateStats: the message total and the days with messages
aggregateStats(data) ==
    [messages   |-> SumCounts(data),
     activeDays |-> Cardinality({d \in DOMAIN data : data[d] > 0})]

\* getLast7Days with the cutoff at the clock's value, no days taken off
getLast7DaysNoOffset(activity, t) ==
    Restrict(activity, {d \in DOMAIN activity : ParseDate(d) >= t})

\* getLast7Days, its `new Date()` returning t
getLast7Days(activity, t) ==
    LET cutoff == SubDays(t, 7)
    IN  Restrict(activity, {d \in DOMAIN activity : ParseDate(d) >= cutoff})

\* getPrev7Days, its two `new Date()` returning t1 and t2
getPrev7Days(activity, t1, t2) ==
    LET start == SubDays(t1, 14)
        end   == SubDays(t2, 7)
    IN  Restrict(activity, {d \in DOMAIN activity :
                              ParseDate(d) >= start /\ ParseDate(d) < end})

\* the offsets of the local zone from UTC, in ticks
TimeZones == {-1, 0, 1}

\* the number of the local day of an instant
LocalDay(t, tz) == (t + tz) \div TicksPerDay

\* now.getFullYear() and now.getMonth(), months counted from 0
getFullYear(t, tz) == (LocalDay(t, tz) \div MonthLen) \div MonthsPerYear

getMonth(t, tz) == (LocalDay(t, tz) \div MonthLen) % MonthsPerYear

\* new Date(year, month, day): local midnight of that day, a month of -1 or
\* a day of 0 carried into the year or month before
MkDate(year, month, day, tz) ==
    ((year * MonthsPerYear + month) * MonthLen + (day - 1)) * TicksPerDay - tz

\* getThisMonth
getThisMonth(activity, t, tz) ==
    LET monthStart == MkDate(getFullYear(t, tz), getMonth(t, tz), 1, tz)
    IN  Restrict(activity, {d \in DOMAIN activity : ParseDate(d) >= monthStart})

\* getLastMonth
getLastMonth(activity, t, tz) ==
    LET lastMonthStart == MkDate(getFullYear(t, tz), getMonth(t, tz) - 1, 1, tz)
        lastMonthEnd   == MkDate(getFullYear(t, tz), getMonth(t, tz), 0, tz)
    IN  Restrict(activity, {d \in DOMAIN activity :
                              /\ ParseDate(d) >= lastMonthStart
                              /\ ParseDate(d) <= lastMonthEnd})

\* activity.find(d => d.date === todayStr) || { messageCount: 0 }
todayData(activity, todayStr) ==
    IF todayStr \in DOMAIN activity THEN activity[todayStr] ELSE 0

\* printCompact: what its line is made of; it reads the clock, and so do
\* getLast7Days and calculateStreak after it
printCompact(activity, clk) ==
    LET todayStr == formatDate(Read(clk, 1))
        last7    == getLast7Days(activity, Read(clk, 2))
        later    == [t |-> Read(clk, 3), late |-> clk.late, k |-> clk.k - 2]
    IN  [today  |-> todayData(activity, todayStr),
         last7  |-> aggregateStats(last7).messages,
         days7  |-> DOMAIN last7,
         all    |-> aggregateStats(activity).messages,
         streak |-> calculateStreak(activity, later)]

\* printStats: the windows it computes before it prints; it reads the clock,
\* and so do getLast7Days, getPrev7Days and calculateStreak after it
Windows(activity, clk, tz) ==
    LET now1     == Read(clk, 1)
        todayStr == formatDate(now1)
        later    == [t |-> Read(clk, 5), late |-> clk.late, k |-> clk.k - 4]
    IN  [today     |-> Restrict(activity, {todayStr}),
         last7     |-> getLast7Days(activity, Read(clk, 2)),
         prev7     |-> getPrev7Days(activity, Read(clk, 3), Read(clk, 4)),
         thisMonth |-> getThisMonth(activity, now1, tz),
         lastMonth |-> getLastMonth(activity, now1, tz),
         streak    |-> calculateStreak(activity, later)]

\* ----------------------------------------------- tokens
\* A token series holds for a date the tokens of each model used that day.

Models == {"opus", "sonnet"}

TokenDates == {Day0 - 1, Day0, Day0 + 1}

TokensByModel ==
    UNION {[S -> 1 .. MaxTokens] : S \in SUBSET Models}

TokenSeries ==
    UNION {[S -> TokensByModel] : S \in SUBSET TokenDates}

\* totals[model] = v
Put(totals, model, v) ==
    [m \in DOMAIN totals \cup {model} |-> IF m = model THEN v ELSE totals[m]]

\* the inner loop: totals[model] = (totals[model] || 0) + tokens
RECURSIVE AddEntries(_, _)
AddEntries(totals, entries) ==
    IF DOMAIN entries = {} THEN totals
    ELSE LET model == CHOOSE m \in DOMAIN entries : TRUE
             old   == IF model \in DOMAIN totals THEN totals[model] ELSE 0
         IN  AddEntries(Put(totals, model, old + entries[model]),
                        Restrict(entries, DOMAIN entries \ {model}))

\* the outer loop, over the records that passed the filter
RECURSIVE AddDays(_, _)
AddDays(totals, filtered) ==
    IF DOMAIN filtered = {} THEN totals
    ELSE LET day == CHOOSE d \in DOMAIN filtered : TRUE
         IN  AddDays(AddEntries(totals, filtered[day]),
                     Restrict(filtered, DOMAIN filtered \ {day}))

\* aggregateTokens without its filter on the dates
aggregateTokensAllDays(tokenData, dateSet) ==
    LET totals == AddDays(<< >>, tokenData)
    IN  [total |-> SumCounts(totals), byModel |-> totals]

\* aggregateTokens; dateSet is the dates of the activity records passed
aggregateTokens(tokenData, dateSet) ==
    LET filtered == Restrict(tokenData, dateSet)
        totals   == AddDays(<< >>, filtered)
    IN  [total |-> SumCounts(totals), byModel |-> totals]

\* ----------------------------------------------- numbers
\* A Number of the language is an IEEE-754 binary64.  The model keeps the
\* magnitude of one as its significand, Prec binary digits with the leading
\* one first, and the exponent of the last digit; zero has no digits.  Every
\* operation computes the exact result and rounds it to nearest, ties to even.

Prec == 53

Zero == [bits |-> << >>, exp |-> 0]

Zeros(n) == [i \in 1 .. n |-> 0]

\* the binary digits of a natural number, none for 0
RECURSIVE Binary(_)
Binary(n) == IF n = 0 THEN << >> ELSE Append(Binary(n \div 2), n % 2)

\* the natural number of a digit sequence
RECURSIVE ToNat(_)
ToNat(b) ==
    IF b = << >> THEN 0
    ELSE 2 * ToNat(SubSeq(b, 1, Len(b) - 1)) + b[Len(b)]

\* b without its leading zeros
Strip(b) ==
    IF \A i \in 1 .. Len(b) : b[i] = 0 THEN << >>
    ELSE LET j == CHOOSE i \in 1 .. Len(b) :
                      b[i] = 1 /\ \A l \in 1 .. i - 1 : b[l] = 0
         IN  SubSeq(b, j, Len(b))

\* the arithmetic works on limbs of LimbDigits binary digits
LimbDigits == 18

Limbs(b) ==
    LET pad == (LimbDigits - (Len(b) % LimbDigits)) % LimbDigits
        p   == Zeros(pad) \o b
    IN  [j \in 1 .. Len(p) \div LimbDigits |->
           ToNat(SubSeq(p, (j - 1) * LimbDigits + 1, j * LimbDigits))]

Bits(l) ==
    [i \in 1 .. Len(l) * LimbDigits |->
       (l[(i - 1) \div LimbDigits + 1]
          \div 2 ^ (LimbDigits - 1 - ((i - 1) % LimbDigits))) % 2]

\* the significand b plus one unit in its last place
Increment(b, e) ==
    IF \A i \in 1 .. Len(b) : b[i] = 1
    THEN [bits |-> <<1>> \o Zeros(Len(b) - 1), exp |-> e + 1]
    ELSE LET j == CHOOSE i \in 1 .. Len(b) :
                      b[i] = 0 /\ \A l \in i + 1 .. Len(b) : b[l] = 1
         IN  [bits |-> SubSeq(b, 1, j - 1) \o <<1>> \o Zeros(Len(b) - j),
              exp  |-> e]

\* the Number nearest to the exact value b * 2^e, plus a non-zero part below
\* the last digit of b when `sticky`; b has no leading zero
RoundBits(b, e, sticky) ==
    IF b = << >> THEN Zero
    ELSE IF Len(b) <= Prec
    THEN [bits |-> b \o Zeros(Prec - Len(b)), exp |-> e - (Prec - Len(b))]
    ELSE LET keep  == SubSeq(b, 1, Prec)
             guard == b[Prec + 1]
             rest  == sticky \/ \E i \in Prec + 2 .. Len(b) : b[i] = 1
             e2    == e + (Len(b) - Prec)
         IN  IF guard = 1 /\ (rest \/ keep[Prec] = 1)
             THEN Increment(keep, e2)
             ELSE [bits |-> keep, exp |-> e2]

\* an integer value as a Number
FromInt(n) == RoundBits(Binary(n), 0, FALSE)

\* long division of the limbs l by k, from limb i on with remainder rem
RECURSIVE DivLimbs(_, _, _, _)
DivLimbs(l, k, i, rem) ==
    IF i > Len(l) THEN [q |-> << >>, r |-> rem]
    ELSE LET v    == rem * 2 ^ LimbDigits + l[i]
             rest == DivLimbs(l, k, i + 1, v % k)
         IN  [q |-> <<v \div k>> \o rest.q, r |-> rest.r]

\* the limbs of l * k, from limb i down with carry
RECURSIVE MulLimbs(_, _, _, _)
MulLimbs(l, k, i, carry) ==
    IF i = 0 THEN <<carry>>
    ELSE LET v == l[i] * k + carry
         IN  Append(MulLimbs(l, k, i - 1, v \div 2 ^ LimbDigits),
                    v % 2 ^ LimbDigits)

\* x / k and x * k for a Number x and an integer k > 0
Divide(x, k) ==
    IF x = Zero THEN Zero
    ELSE LET d == DivLimbs(Limbs(x.bits) \o <<0>>, k, 1, 0)
         IN  RoundBits(Strip(Bits(d.q)), x.exp - LimbDigits, d.r # 0)

Times(x, k) ==
    IF x = Zero THEN Zero
    ELSE LET l == Limbs(x.bits)
         IN  RoundBits(Strip(Bits(MulLimbs(l, k, Len(l), 0))), x.exp, FALSE)

\* the integer part of a Number, whether it has a fraction, and the first
\* digit of the fraction
IntDigits(x) == Prec + x.exp

IntPart(x) ==
    IF x = Zero \/ IntDigits(x) <= 0 THEN 0
    ELSE ToNat(SubSeq(x.bits, 1, IntDigits(x)))

HasFraction(x) ==
    /\ x # Zero
    /\ \/ IntDigits(x) <= 0
       \/ \E i \in IntDigits(x) + 1 .. Prec : x.bits[i] = 1

HalfDigit(x) ==
    IF x = Zero \/ IntDigits(x) < 0 \/ IntDigits(x) >= Prec THEN 0
    ELSE x.bits[IntDigits(x) + 1]

\* Math.round of a Number that is not negative: halves go up
MathRound(x) == IntPart(x) + HalfDigit(x)

\* Math.min(x, 100)
MathMin100(x) == IF IntPart(x) >= 100 THEN FromInt(100) ELSE x

\* ----------------------------------------------- goals and trends

\* the width of a progress bar
BarWidth == 20

\* makeProgressBar: the filled cells
makeProgressBar(percent, width) ==
    MathRound(Times(Divide(percent, 100), width))

\* printGoalsProgress, one of its two lines: the bar, the status
printGoalsProgress(msgs, goal) ==
    LET pct == MathMin100(Times(Divide(FromInt(msgs), goal), 100))
    IN  [filled  |-> makeProgressBar(pct, BarWidth),
         met     |-> msgs >= goal,
         percent |-> MathRound(pct)]

\* getTrend with the bounds of the band counted as a change
getTrendInclusive(current, previous) ==
    IF previous = 0 THEN "none"
    ELSE LET mag == IF current >= previous THEN current - previous
                    ELSE previous - current
             diff == Times(Divide(FromInt(mag), previous), 100)
         IN  IF IntPart(diff) < 10 THEN "neutral"
             ELSE IF current > previous THEN "up" ELSE "down"

\* getTrend: the quotient and the product have the sign of current - previous,
\* and rounding is the same for both signs
getTrend(current, previous) ==
    IF previous = 0 THEN "none"
    ELSE LET mag == IF current >= previous THEN current - previous
                    ELSE previous - current
             diff == Times(Divide(FromInt(mag), previous), 100)
             over == IntPart(diff) > 10 \/ (IntPart(diff) = 10 /\ HasFraction(diff))
         IN  IF current > previous /\ over THEN "up"
             ELSE IF current < previous /\ over THEN "down"
             ELSE "neutral"

\* ----------------------------------------------- the recent-day views
\* Here a history is the array itself, a sequence of records with distinct
\* dates: the days up to today in some order, a few of them with messages.

HeatmapDays == 21

ChartDays == 10

BusyCounts == {1, 2}

\* the last n days in the order of their dates, busy[i] messages on day i
Chronological(n, busy) ==
    [i \in 1 .. n |->
       [date         |-> Day0 - n + i,
        messageCount |-> IF i \in DOMAIN busy THEN busy[i] ELSE 0]]

\* the same records, the first r of them moved to the end
Rotate(s, r) == [i \in 1 .. Len(s) |-> s[((i + r - 1) % Len(s)) + 1]]

Arrays(days) ==
    {Rotate(Chronological(n, busy), r) :
       n \in days .. days + MaxExtra,
       r \in 0 .. MaxExtra,
       busy \in UNION {[S -> BusyCounts] :
                         S \in {T \in SUBSET (days - 1 .. days + MaxExtra) :
                                  Cardinality(T) <= MaxBusy}}}

\* activity.slice(-days)
Slice(activity, days) ==
    SubSeq(activity, Max(1, Len(activity) - days + 1), Len(activity))

\* Math.max(...recent.map(d => d.messageCount), 1)
MaxMsgs(recent) ==
    LET vals == {recent[i].messageCount : i \in 1 .. Len(recent)} \cup {1}
    IN  CHOOSE m \in vals : \A v \in vals : v <= m

\* recent.reduce((max, d) => d.messageCount > max.messageCount ? d : max,
\* recent[0]): the position of the record it returns
RECURSIVE PeakDay(_, _, _)
PeakDay(recent, i, max) ==
    IF i > Len(recent) THEN max
    ELSE PeakDay(recent, i + 1,
                 IF recent[i].messageCount > recent[max].messageCount
                 THEN i ELSE max)

\* printDailyChart: the records of its lines and the lines with the star
printDailyChart(activity, days) ==
    LET recent == Slice(activity, days)
        peak   == PeakDay(recent, 1, 1)
    IN  [recent  |-> recent,
         maxMsgs |-> MaxMsgs(recent),
         peaks   |-> {i \in 1 .. Len(recent) :
                        i = peak /\ recent[i].messageCount > 0}]

\* printHeatmap: the records of its cells and the block of each cell,
\* Math.min(Math.floor((messageCount / maxMsgs) * 4), 3); the quotient of two
\* integers this small is further from every quarter than its rounding error
\* and the product with 4 is exact, so the floor is that of the exact value
printHeatmap(activity, days) ==
    LET recent  == Slice(activity, days)
        maxMsgs == MaxMsgs(recent)
    IN  [recent  |-> recent,
         maxMsgs |-> maxMsgs,
         blocks  |-> [i \in 1 .. Len(recent) |->
                        LET b == (4 * recent[i].messageCount) \div maxMsgs
                        IN  IF b > 3 THEN 3 ELSE b]]

\* ----------------------------------------------- setting the goals
\* A command-line argument after --goals: none, a word that is no number, an
\* integer literal, or a decimal literal with a fraction of one half.

ArgTokens ==
    {[kind |-> "absent"], [kind |-> "word"]}
      \cup [kind : {"int", "decimal"}, neg : BOOLEAN, digits : 0 .. MaxArg]

\* !arg is false for every string that is not empty
Truthy(arg) == arg.kind # "absent"

\* isNaN(arg): the argument as a Number is NaN
isNaN(arg) == arg.kind \in {"absent", "word"}

\* parseInt(arg): the integer digits with their sign, the fraction dropped
parseInt(arg) ==
    IF arg.kind \in {"int", "decimal"}
    THEN IF arg.neg THEN 0 - arg.digits ELSE arg.digits
    ELSE "NaN"

\* setGoals: the exit code and what saveGoals has written
setGoals(dailyArg, weeklyArg) ==
    IF ~ Truthy(dailyArg) \/ isNaN(dailyArg)
    THEN [exit |-> 1, saved |-> {}]
    ELSE [exit  |-> 0,
          saved |-> {[daily  |-> parseInt(dailyArg),
                      weekly |-> IF Truthy(weeklyArg) /\ ~ isNaN(weeklyArg)
                                 THEN parseInt(weeklyArg)
                                 ELSE parseInt(dailyArg) * 7]}]

\* ----------------------------------------------- the functions, called once

StreakArgs == [fn : {"calculateStreak"}, activity : Histories,
               clk : Clocks(MaxRecords + 1)]

Last7Args == [fn : {"getLast7Days"}, activity : Histories, t : Instants]

MonthArgs == [fn : {"getThisMonth", "getLastMonth"}, activity : Histories,
              t : Instants, tz : TimeZones]

CompactArgs == [fn : {"printCompact"}, activity : Histories,
                clk : Clocks(MaxRecords + 3)]

WindowsArgs == [fn : {"printStats"}, activity : Histories,
                clk : Clocks(MaxRecords + 5), tz : TimeZones]

GoalArgs == [fn : {"printGoalsProgress"}, msgs : 0 .. MaxCount,
             goal : 1 .. MaxGoal]

TrendArgs == [fn : {"getTrend"}, current : 0 .. MaxCount,
              previous : 0 .. MaxGoal]

TokenArgs == [fn : {"aggregateTokens"}, tokenData : TokenSeries,
              dateSet : SUBSET TokenDates]

SetGoalsArgs == [fn : {"setGoals"}, dailyArg : ArgTokens,
                 weeklyArg : ArgTokens]

ChartArgs == [fn : {"printDailyChart"}, activity : Arrays(ChartDays)]

HeatmapArgs == [fn : {"printHeatmap"}, activity : Arrays(HeatmapDays)]

AllArgs == StreakArgs \cup Last7Args \cup MonthArgs \cup CompactArgs
             \cup WindowsArgs \cup GoalArgs \cup TrendArgs \cup TokenArgs
             \cup SetGoalsArgs \cup ChartArgs \cup HeatmapArgs

\* the scheduler's variables, which no call of a function touches
sched == <<opts, auth, goalsFile, statsFile, version, watchPending, phase,
           exitCode, cursorHidden, rawMode, now, lastRefreshTime,
           nextPeriodic, spinnerIndex, showGoals, inflight, screen>>

InitCalc ==
    /\ opts = [watch |-> FALSE, json |-> FALSE, compact |-> FALSE,
               export |-> FALSE, tty |-> FALSE]
    /\ auth = "none"
    /\ goalsFile = FALSE
    /\ statsFile = "ok"
    /\ version = 1
    /\ watchPending = FALSE
    /\ phase = "Start"
    /\ exitCode = -1
    /\ cursorHidden = FALSE
    /\ rawMode = FALSE
    /\ now = 0
    /\ lastRefreshTime = 0
    /\ nextPeriodic = 0
    /\ spinnerIndex = 0
    /\ showGoals = TRUE
    /\ inflight = <<>>
    /\ screen = NoScreen
    /\ args \in AllArgs
    /\ result = NoResult

\* a function returns v
Return(v) ==
    /\ result = NoResult
    /\ result' = [fn |-> args.fn, value |-> v]
    /\ UNCHANGED <<sched, args>>

CallStreak ==
    /\ args.fn = "calculateStreak"
    /\ Return(calculateStreak(args.activity, args.clk))

CallLast7 ==
    /\ args.fn = "getLast7Days"
    /\ Return(getLast7Days(args.activity, args.t))

CallThisMonth ==
    /\ args.fn = "getThisMonth"
    /\ Return(getThisMonth(args.activity, args.t, args.tz))

CallLastMonth ==
    /\ args.fn = "getLastMonth"
    /\ Return(getLastMonth(args.activity, args.t, args.tz))

CallCompact ==
    /\ args.fn = "printCompact"
    /\ Return(printCompact(args.activity, args.clk))

CallWindows ==
    /\ args.fn = "printStats"
    /\ Return(Windows(args.activity, args.clk, args.tz))

CallGoals ==
    /\ args.fn = "printGoalsProgress"
    /\ Return(printGoalsProgress(args.msgs, args.goal))

CallTrend ==
    /\ args.fn = "getTrend"
    /\ Return(getTrend(args.current, args.previous))

CallTokens ==
    /\ args.fn = "aggregateTokens"
    /\ Return(aggregateTokens(args.tokenData, args.dateSet))

CallSetGoals ==
    /\ args.fn = "setGoals"
    /\ Return(setGoals(args.dailyArg, args.weeklyArg))

CallChart ==
    /\ args.fn = "printDailyChart"
    /\ Return(printDailyChart(args.activity, ChartDays))

CallHeatmap ==
    /\ args.fn = "printHeatmap"
    /\ Return(printHeatmap(args.activity, HeatmapDays))

NextCalc ==
    \/ CallStreak
    \/ CallChart
    \/ CallHeatmap
    \/ CallSetGoals
    \/ CallTokens
    \/ CallGoals
    \/ CallTrend
    \/ CallLast7
    \/ CallThisMonth
    \/ CallLastMonth
    \/ CallCompact
    \/ CallWindows

SpecCalc == InitCalc /\ [][NextCalc]_vars

\* ------------------------------------------------- claims on the statistics

\* calculateStreak was called with a clock that stood still, on day `today`
StreakCall(today) ==
    /\ result.fn = "calculateStreak"
    /\ args.clk.late = args.clk.t
    /\ today = formatDate(args.clk.t)

\* C11: for every K >= 1, a history whose records are exactly those of the K
\* days before today, each with messageCount > 0, has streak K.
C11_StreakLaw ==
    \A today \in Dates, K \in 1 .. MaxRecords :
      /\ StreakCall(today)
      /\ DOMAIN args.activity = (today - K) .. (today - 1)
      /\ \A d \in DOMAIN args.activity : args.activity[d] > 0
      => result.value = K

\* C12: a record for today with messageCount = 0 ends the streak walk at
\* once: the streak is 0.
C12_ZeroTodayEnds ==
    \A today \in Dates :
      /\ StreakCall(today)
      /\ today \in DOMAIN args.activity
      /\ args.activity[today] = 0
      => result.value = 0


\* C13: the last-7-days filter returns exactly the records dated on or after
\* the calendar date of now minus 7 days, whatever the time of day of now: the
\* record dated exactly 7 days before today is always in the result.
C13_Last7ByDate ==
    result.fn = "getLast7Days"
    => DOMAIN result.value
         = {d \in DOMAIN args.activity : d >= formatDate(SubDays(args.t, 7))}

\* C14: the current-month filter returns exactly the records dated in the
\* month of now (a record of a later month is not in it), the previous-month
\* filter exactly those of the month before it, December of the year before
\* when now is in January, and no record is in both.
C14_MonthWindows ==
    /\ result.fn = "getThisMonth"
       => DOMAIN result.value
            = {d \in DOMAIN args.activity :
                 d \div MonthLen = LocalDay(args.t, args.tz) \div MonthLen}
    /\ result.fn = "getLastMonth"
       => DOMAIN result.value
            = {d \in DOMAIN args.activity :
                 d \div MonthLen = (LocalDay(args.t, args.tz) \div MonthLen) - 1}
    /\ result.fn = "printStats"
       => DOMAIN result.value.thisMonth \cap DOMAIN result.value.lastMonth = {}

\* C15: on one history and one now, the message total of the last 7 days is
\* at least the message count of today's record, and today's record, when
\* there is one, is among the records of the last 7 days.
C15_Last7CoversToday ==
    result.fn = "printCompact"
    => /\ result.value.last7 >= result.value.today
       /\ formatDate(args.clk.t) \in DOMAIN args.activity
          => formatDate(args.clk.t) \in result.value.days7

\* today's record has messages and the clock passed midnight between the read
\* that names today and the read that sets the 7-day cutoff
C15_Witness ==
    /\ result.fn = "printCompact"
    /\ result.value.today > 0
    /\ args.clk.k = 1
    /\ formatDate(args.clk.late) > formatDate(args.clk.t)


\* C20: all the windows of one render are computed on one now: no two of them
\* observe different values of the clock, even when the clock passes midnight
\* during the render, so they are what a clock standing still would give.
C20_OneClock ==
    result.fn = "printStats"
    => result.value
         = Windows(args.activity,
                   [t |-> args.clk.t, late |-> args.clk.t, k |-> args.clk.k],
                   args.tz)


\* C17: for every current >= 0 and goal > 0 the percentage of a goal line is
\* min(100, round(100 * current / goal)), it lies in 0..100, and the goal is
\* reported as met exactly when current >= goal.
C17_GoalProgress ==
    result.fn = "printGoalsProgress"
    => LET exact == (200 * args.msgs + args.goal) \div (2 * args.goal)
       IN  /\ result.value.percent = IF exact > 100 THEN 100 ELSE exact
           /\ result.value.percent \in 0 .. 100
           /\ result.value.met <=> args.msgs >= args.goal

C16_TokenScoping ==
    result.fn = "aggregateTokens"
    => LET days  == args.dateSet \cap DOMAIN args.tokenData
           on(m) == {d \in days : m \in DOMAIN args.tokenData[d]}
           by    == result.value.byModel
       IN  /\ DOMAIN by = {m \in Models : on(m) # {}}
           /\ \A m \in DOMAIN by :
                by[m] = SumCounts([d \in on(m) |-> args.tokenData[d][m]])
           /\ result.value.total = SumCounts(by)
           /\ args.dateSet = {} => result.value.total = 0 /\ by = << >>

\* tokens were summed while the series has a record of a date outside the
\* subset
C16_Witness ==
    /\ result.fn = "aggregateTokens"
    /\ result.value.total > 0
    /\ \E d \in DOMAIN args.tokenData \ args.dateSet :
         DOMAIN args.tokenData[d] # {}


\* C18: a goals configuration with a zero or negative daily or weekly goal is
\* never stored: for such an argument, and for one that is no number, the
\* set-goals operation exits non-zero and writes nothing, so every stored
\* configuration has daily > 0 and weekly > 0.
C18_GoalsPositive ==
    result.fn = "setGoals"
    => LET invalid(arg) == \/ arg.kind = "word"
                           \/ arg.kind \in {"int", "decimal"}
                              /\ (arg.neg \/ arg.digits = 0)
       IN  /\ \A g \in result.value.saved : g.daily > 0 /\ g.weekly > 0
           /\ invalid(args.dailyArg) \/ invalid(args.weeklyArg)
              => result.value.exit # 0 /\ result.value.saved = {}


\* C21: whatever the order of the records in the history, the daily chart
\* covers the 10 records with the latest dates and the heatmap the 21 records
\* with the latest dates, and the chart marks exactly one peak day, the first
\* day with the highest messageCount, whenever a day of its window has
\* messages.
C21_LatestDays ==
    LET dates(s)   == {s[i].date : i \in 1 .. Len(s)}
        latest(n)  == {d \in dates(args.activity) :
                         Cardinality({e \in dates(args.activity) : e > d}) < n}
        recent     == result.value.recent
    IN  /\ result.fn = "printHeatmap" => dates(recent) = latest(HeatmapDays)
        /\ result.fn = "printDailyChart"
           => /\ dates(recent) = latest(ChartDays)
              /\ (\E i \in 1 .. Len(recent) : recent[i].messageCount > 0)
                 => \E i \in 1 .. Len(recent) :
                      /\ result.value.peaks = {i}
                      /\ \A j \in 1 .. Len(recent) :
                           recent[j].messageCount <= recent[i].messageCount
                      /\ \A j \in 1 .. i - 1 :
                           recent[j].messageCount < recent[i].messageCount


\* C22: renders write to the terminal in the order they were started: a render
\* that read an older content of the cache never writes its output after a
\* render started later, so what a render writes while the program watches is
\* never older than what the screen showed before it.
C22_RendersInOrder ==
    [][phase' = "Watching" /\ screen'.data # 0
         => screen'.data >= screen.data]_vars


\* C23: the footer's countdown agrees with the refresh timer: the seconds it
\* shows are never negative and never above the interval, and when it shows
\* N > 0 seconds (the remaining time rounded up) the refresh timer's next run
\* is more than N - 1 seconds away, also after a render for a file change has
\* reset the baseline of the countdown.
C23_CountdownAgrees ==
    [][now' # now
         => /\ screen'.footer \in 0 .. CeilDiv(refreshInterval, 1000)
            /\ screen'.footer > 0
               => nextPeriodic' > now' + (screen'.footer - 1) * 1000]_vars

====
